---- MODULE Spec2Model ----
(***************************************************************************)
(* Model of the two Semantic Kernel demos:                                 *)
(*   semantic_kernel_groupchat_demo.py  (stream_group_chat, _build_agents) *)
(*   semantic_kernel_agent_demo.py      (run_demo)                         *)
(* One behaviour is one process run of one of the two programs.  The       *)
(* backend (Azure OpenAI) and the consumer of the async generator are the  *)
(* environment: every backend call either returns or raises, and the       *)
(* consumer either resumes or closes the stream at a yield.                *)
(***************************************************************************)
EXTENDS Integers, Sequences, FiniteSets, TLC

\* ---------------------------------------------------------------- bounds
MaxRoundsArg == 2       \* largest max_rounds argument a caller passes
MaxEnvRounds == 1       \* largest SEMANTIC_KERNEL_GROUPCHAT_MAX_ITERATIONS value
MaxOtherAgents == 1     \* assistants other runs create on the same backend

\* ------------------------------------------------------------- constants
DefaultMaxIterations == 4
ASSISTANT_NAMESPACE == "sk-groupchat-demo"
ASSISTANT_PROFILES == <<"planner", "researcher", "editor">>
ASSISTANT_NAME == "sk-quickstart-demo"

\* None, for an integer argument that was not supplied
NoneVal == -1
\* settings of SEMANTIC_KERNEL_GROUPCHAT_MAX_ITERATIONS that are not a number
EnvUnset == -1
EnvBad == -2
\* None, for a message without a name
NoName == <<>>

\* ------------------------------------------------------ text and messages
\* Text is a sequence of characters; " " is the only whitespace used.
Prompts == { <<>>, <<"h", "i">> }

RECURSIVE LStrip(_)
LStrip(s) == IF s /= <<>> /\ Head(s) = " " THEN LStrip(Tail(s)) ELSE s

RECURSIVE RStrip(_)
RStrip(s) ==
    IF s /= <<>> /\ s[Len(s)] = " " THEN RStrip(SubSeq(s, 1, Len(s) - 1)) ELSE s

\* str.strip()
Strip(s) == RStrip(LStrip(s))

\* f"{ASSISTANT_NAMESPACE}-{short_name}": the name is kept as its two parts.
AgentName(short) == <<ASSISTANT_NAMESPACE, short>>

\* _normalize_name, without the removal of the namespace prefix.
_normalize_nameKeepsPrefix(name) ==
    IF name = NoName THEN <<"assistant">> ELSE name

\* _normalize_name
_normalize_name(name) ==
    IF name = NoName THEN <<"assistant">>
    ELSE IF name[1] = ASSISTANT_NAMESPACE THEN Tail(name)
    ELSE name

Msg(role, name, content) == [role |-> role, name |-> name, content |-> content]

\* The reply of a stub backend: one assistant message with a fixed text.
StubReply(name) == << Msg("assistant", name, <<"ack-">> \o name) >>

\* What one agent invocation hands back through chat.invoke(): zero or more
\* messages, each with a role and a text.
ReplyChoices(name) ==
    { <<>>,
      StubReply(name),
      << Msg("assistant", name, <<" ">>) >>,
      << Msg("tool", name, <<"r">>),
         Msg("assistant", name, <<" ", "ack-">> \o name \o <<" ">>) >> }

\* int(os.getenv(..., "4"))
EnvInt(env) == IF env = EnvUnset THEN DefaultMaxIterations ELSE env

\* max_rounds or int(...)
ResolveMaxRounds(arg, env) ==
    IF arg /= NoneVal /\ arg /= 0 THEN arg ELSE EnvInt(env)

\* ResolveRaises, with a non-integer setting let through.
ResolveRaisesNever(arg, env) == FALSE

\* int(...) raises ValueError
ResolveRaises(arg, env) ==
    (arg = NoneVal \/ arg = 0) /\ env = EnvBad

\* ------------------------------------------------------------------ state
VARIABLES
    prog,            \* which program this process runs: "groupchat" or "demo"
    pc,              \* position in stream_group_chat / run_demo
    cfgOk,           \* endpoint, api key and deployment are all set
    keep,            \* AZURE_OPENAI_KEEP_ASSISTANT is one of true/1/yes
    maxRoundsArg,    \* max_rounds argument (NoneVal when not supplied)
    envMax,          \* SEMANTIC_KERNEL_GROUPCHAT_MAX_ITERATIONS
    suppliedId,      \* run_demo: AZURE_OPENAI_ASSISTANT_ID is set
    prompt,
    clientBuilt,     \* an AsyncAzureOpenAI client exists
    resolved,        \* resolved_max_rounds
    created,         \* backend: ids created by this run, in order
    bAgents,         \* _build_agents: local list agents
    bIds,            \* _build_agents: local list assistant_ids
    agents,          \* stream_group_chat: agents
    assistant_ids,   \* stream_group_chat: assistant_ids
    selIndex,        \* SequentialSelectionStrategy position
    iter,            \* iterations of chat.invoke() started
    pending,         \* messages of the current round not yet handed over
    curRound,        \* round the pending messages belong to
    agentMsgs,       \* Agent-role messages appended to the history
    invoked,         \* agents invoked, in order
    turn,
    emitted,         \* entries yielded to the consumer, in order
    releaseCount,    \* times the finally block's delete step was entered
    delIdx,          \* position of the delete loop in assistant_ids
    deleteAttempts,  \* backend: ids for which delete was called, in order
    closed,          \* times client.close() was called
    inflight,        \* exception propagating while the finally block runs
    surfaced,        \* what the caller of the run observes at the end
    cancelled,       \* the consumer closed the stream
    exitCause,       \* why the try block was left
    replies,         \* what the backend answered, one reply per returned invocation
    transcript,      \* entries the consumer has taken from the stream
    inFlight,        \* backend invocations called and not yet returned
    nextId,          \* backend: the next assistant id it hands out
    otherIds         \* backend: assistants created by other runs

vars == << prog, pc, cfgOk, keep, maxRoundsArg, envMax, suppliedId, prompt,
           clientBuilt, resolved, created, bAgents, bIds, agents,
           assistant_ids, selIndex, iter, pending, curRound, agentMsgs,
           invoked, turn, emitted, releaseCount, delIdx, deleteAttempts,
           closed, inflight, surfaced, cancelled, exitCause, replies,
           transcript, inFlight, nextId, otherIds >>

inputs == << prog, cfgOk, keep, maxRoundsArg, envMax, suppliedId, prompt >>

K == Len(ASSISTANT_PROFILES)

Init ==
    /\ prog \in {"groupchat", "demo"}
    /\ cfgOk \in BOOLEAN
    /\ keep \in BOOLEAN
    /\ maxRoundsArg \in IF prog = "groupchat"
                        THEN {NoneVal} \cup (0..MaxRoundsArg) ELSE {NoneVal}
    /\ envMax \in IF prog = "groupchat"
                  THEN {EnvUnset, EnvBad} \cup (1..MaxEnvRounds) ELSE {EnvUnset}
    /\ suppliedId \in IF prog = "demo" THEN BOOLEAN ELSE {FALSE}
    /\ prompt \in Prompts
    /\ pc = "start"
    /\ clientBuilt = FALSE
    /\ resolved = NoneVal
    /\ created = <<>>
    /\ bAgents = <<>>
    /\ bIds = <<>>
    /\ agents = <<>>
    /\ assistant_ids = <<>>
    /\ selIndex = 0
    /\ iter = 0
    /\ pending = <<>>
    /\ curRound = 0
    /\ agentMsgs = 0
    /\ invoked = <<>>
    /\ turn = 0
    /\ emitted = <<>>
    /\ releaseCount = 0
    /\ delIdx = 0
    /\ deleteAttempts = <<>>
    /\ closed = 0
    /\ inflight = "none"
    /\ surfaced = "none"
    /\ cancelled = FALSE
    /\ exitCause = "none"
    /\ replies = <<>>
    /\ transcript = <<>>
    /\ inFlight = 0
    /\ nextId = 1
    /\ otherIds = {}

\* The id the backend gives the i-th assistant this run creates.
NewId(i) == i

\* An entry of the transcript stream; round is the round that produced it
\* (0 for the prompt).
Entry(label, content, key, round) ==
    [label |-> label, content |-> content, key |-> key, round |-> round]

\* ------------------------------------------------- stream_group_chat: setup
\* Lines 131-136: _build_client, the keep flag, resolved_max_rounds.  All of
\* it runs before the try block.
StartRun ==
    /\ prog = "groupchat"
    /\ pc = "start"
    /\ IF ~cfgOk
       THEN /\ pc' = "done"
            /\ surfaced' = "ConfigError"
            /\ UNCHANGED << clientBuilt, resolved >>
       ELSE /\ clientBuilt' = TRUE
            /\ IF ResolveRaises(maxRoundsArg, envMax)
               THEN /\ pc' = "done"
                    /\ surfaced' = "ValueError"
                    /\ UNCHANGED resolved
               ELSE /\ pc' = "build"
                    /\ resolved' = ResolveMaxRounds(maxRoundsArg, envMax)
                    /\ UNCHANGED surfaced
    /\ UNCHANGED << inputs, exitCause, created, bAgents, bIds, agents, assistant_ids,
                    selIndex, iter, pending, curRound, agentMsgs, invoked,
                    turn, emitted, releaseCount, delIdx, deleteAttempts,
                    closed, inflight, cancelled >>
    /\ UNCHANGED << replies, transcript, inFlight, nextId, otherIds >>

\* _build_agents: one pass of the for loop whose create call returns.
CreateAgent ==
    /\ prog = "groupchat"
    /\ pc = "build"
    /\ Len(bIds) < K
    /\ LET id == NewId(nextId)
           short == ASSISTANT_PROFILES[Len(bIds) + 1]
       IN /\ created' = Append(created, id)
          /\ bAgents' = Append(bAgents, [id |-> id, name |-> AgentName(short)])
          /\ bIds' = Append(bIds, id)
          /\ nextId' = nextId + 1
    /\ UNCHANGED << inputs, exitCause, pc, clientBuilt, resolved, agents, assistant_ids,
                    selIndex, iter, pending, curRound, agentMsgs, invoked,
                    turn, emitted, releaseCount, delIdx, deleteAttempts,
                    closed, inflight, surfaced, cancelled >>
    /\ UNCHANGED << replies, transcript, inFlight, otherIds >>

\* _build_agents: the create call raises.  The exception leaves _build_agents
\* and the assignment at line 142 never happens.
CreateAgentFail ==
    /\ prog = "groupchat"
    /\ pc = "build"
    /\ Len(bIds) < K
    /\ pc' = "finally"
    /\ exitCause' = "CreateError"
    /\ inflight' = "CreateError"
    /\ UNCHANGED << inputs, clientBuilt, resolved, created, bAgents, bIds,
                    agents, assistant_ids, selIndex, iter, pending, curRound,
                    agentMsgs, invoked, turn, emitted, releaseCount, delIdx,
                    deleteAttempts, closed, surfaced, cancelled >>
    /\ UNCHANGED << replies, transcript, inFlight, nextId, otherIds >>

\* _build_agents returns; lines 142-159: the chat is built, the prompt is
\* added and ("user", prompt, "user") is yielded.
BuildReturn ==
    /\ prog = "groupchat"
    /\ pc = "build"
    /\ Len(bIds) = K
    /\ agents' = bAgents
    /\ assistant_ids' = bIds
    /\ emitted' = Append(emitted, Entry(<<"user", 0, NoName>>, prompt, <<"user">>, 0))
    /\ pc' = "yield"
    /\ UNCHANGED << inputs, exitCause, clientBuilt, resolved, created, bAgents, bIds,
                    selIndex, iter, pending, curRound, agentMsgs, invoked,
                    turn, releaseCount, delIdx, deleteAttempts, closed,
                    inflight, surfaced, cancelled >>
    /\ UNCHANGED << replies, transcript, inFlight, nextId, otherIds >>

\* ------------------------------------------------------ consumer at a yield
\* The consumer asks for the next entry.
Resume ==
    /\ prog = "groupchat"
    /\ pc = "yield"
    /\ transcript' = Append(transcript, emitted[Len(emitted)])
    /\ pc' = "loop"
    /\ UNCHANGED << inputs, exitCause, clientBuilt, resolved, created, bAgents, bIds,
                    agents, assistant_ids, selIndex, iter, pending, curRound,
                    agentMsgs, invoked, turn, emitted, releaseCount, delIdx,
                    deleteAttempts, closed, inflight, surfaced, cancelled >>
    /\ UNCHANGED << replies, inFlight, nextId, otherIds >>

\* CloseStream, with the generator dropped without running its finally block.
CloseStreamSkipsFinally ==
    /\ prog = "groupchat"
    /\ pc = "yield"
    /\ transcript' = Append(transcript, emitted[Len(emitted)])
    /\ pc' = "done"
    /\ exitCause' = "GeneratorExit"
    /\ cancelled' = TRUE
    /\ UNCHANGED << inputs, clientBuilt, resolved, created, bAgents, bIds,
                    agents, assistant_ids, selIndex, iter, pending, curRound,
                    agentMsgs, invoked, turn, emitted, releaseCount, delIdx,
                    deleteAttempts, closed, inflight, surfaced >>
    /\ UNCHANGED << replies, inFlight, nextId, otherIds >>

\* CloseStream, with GeneratorExit swallowed and the loop carrying on.
CloseStreamKeepsLooping ==
    /\ prog = "groupchat"
    /\ pc = "yield"
    /\ transcript' = Append(transcript, emitted[Len(emitted)])
    /\ pc' = "loop"
    /\ cancelled' = TRUE
    /\ UNCHANGED << inputs, exitCause, clientBuilt, resolved, created, bAgents,
                    bIds, agents, assistant_ids, selIndex, iter, pending,
                    curRound, agentMsgs, invoked, turn, emitted, releaseCount,
                    delIdx, deleteAttempts, closed, inflight, surfaced >>
    /\ UNCHANGED << replies, inFlight, nextId, otherIds >>

\* The consumer closes the stream (aclose): GeneratorExit is raised at the
\* yield and the finally block runs.
CloseStream ==
    /\ prog = "groupchat"
    /\ pc = "yield"
    /\ transcript' = Append(transcript, emitted[Len(emitted)])
    /\ pc' = "finally"
    /\ exitCause' = "GeneratorExit"
    /\ inflight' = "GeneratorExit"
    /\ cancelled' = TRUE
    /\ UNCHANGED << inputs, clientBuilt, resolved, created, bAgents, bIds,
                    agents, assistant_ids, selIndex, iter, pending, curRound,
                    agentMsgs, invoked, turn, emitted, releaseCount, delIdx,
                    deleteAttempts, closed, surfaced >>
    /\ UNCHANGED << replies, inFlight, nextId, otherIds >>

\* SelectAgent, staying on the last agent instead of wrapping.
SelectAgentNoWrap(ags, idx) == ags[IF idx >= Len(ags) THEN Len(ags) ELSE idx + 1]

\* ----------------------------------------------------------- chat.invoke()
\* SequentialSelectionStrategy: the next agent in list order, wrapping.
SelectAgent(ags, idx) == ags[(idx % Len(ags)) + 1]

\* MoreRounds, with the bound off by one.
MoreRoundsInclusive(done, m) == done <= m

\* DefaultTerminationStrategy(maximum_iterations = m): one more round?
MoreRounds(done, m) == done < m

\* InvokeCall, not waiting for the invocation of the round before.
InvokeCallConcurrent ==
    /\ prog = "groupchat"
    /\ pc \in {"loop", "invoking"}
    /\ pending = <<>>
    /\ MoreRounds(iter, resolved)
    /\ LET agent == SelectAgent(agents, selIndex)
       IN /\ selIndex' = (selIndex % Len(agents)) + 1
          /\ invoked' = Append(invoked, agent.id)
          /\ iter' = iter + 1
          /\ curRound' = iter + 1
    /\ inFlight' = inFlight + 1
    /\ pc' = "invoking"
    /\ UNCHANGED << inputs, exitCause, clientBuilt, resolved, created, bAgents, bIds,
                    agents, assistant_ids, pending, agentMsgs, turn, emitted,
                    releaseCount, delIdx, deleteAttempts, closed, inflight,
                    surfaced, cancelled >>
    /\ UNCHANGED << replies, transcript, nextId, otherIds >>

\* The next round of chat.invoke(): the next agent is selected and the backend
\* is called for it.
InvokeCall ==
    /\ prog = "groupchat"
    /\ pc = "loop"
    /\ pending = <<>>
    /\ MoreRounds(iter, resolved)
    /\ LET agent == SelectAgent(agents, selIndex)
       IN /\ selIndex' = (selIndex % Len(agents)) + 1
          /\ invoked' = Append(invoked, agent.id)
          /\ iter' = iter + 1
          /\ curRound' = iter + 1
    /\ inFlight' = inFlight + 1
    /\ pc' = "invoking"
    /\ UNCHANGED << inputs, exitCause, clientBuilt, resolved, created, bAgents, bIds,
                    agents, assistant_ids, pending, agentMsgs, turn, emitted,
                    releaseCount, delIdx, deleteAttempts, closed, inflight,
                    surfaced, cancelled >>
    /\ UNCHANGED << replies, transcript, nextId, otherIds >>

\* The backend answers the invocation.
InvokeAgent ==
    /\ prog = "groupchat"
    /\ pc = "invoking"
    /\ \E reply \in ReplyChoices(agents[selIndex].name) :
          /\ pending' = reply
          /\ replies' = Append(replies, reply)
    /\ inFlight' = inFlight - 1
    /\ pc' = "loop"
    /\ UNCHANGED << inputs, exitCause, clientBuilt, resolved, created, bAgents, bIds,
                    agents, assistant_ids, selIndex, iter, curRound, invoked,
                    agentMsgs, turn, emitted,
                    releaseCount, delIdx, deleteAttempts, closed, inflight,
                    surfaced, cancelled >>
    /\ UNCHANGED << transcript, nextId, otherIds >>

\* The backend raises for the invocation.
InvokeAgentFail ==
    /\ prog = "groupchat"
    /\ pc = "invoking"
    /\ inFlight' = inFlight - 1
    /\ pc' = "finally"
    /\ exitCause' = "InvokeError"
    /\ inflight' = "InvokeError"
    /\ UNCHANGED << inputs, clientBuilt, resolved, created, bAgents, bIds,
                    agents, assistant_ids, selIndex, iter, curRound, invoked,
                    pending, agentMsgs, turn, emitted,
                    releaseCount, delIdx, deleteAttempts, closed, surfaced,
                    cancelled >>
    /\ UNCHANGED << replies, transcript, nextId, otherIds >>

\* TurnAfter, counting an assistant message before its content is looked at.
TurnAfterCountsEmpty(t, message) ==
    IF message.role = "assistant" THEN t + 1 ELSE t

\* TurnAfter, counting every message that is shown.
TurnAfterCountsTools(t, message) ==
    IF Strip(message.content) /= <<>> THEN t + 1 ELSE t

\* Lines 163-169: turn after one message; only an assistant message with
\* content counts.
TurnAfter(t, message) ==
    IF Strip(message.content) /= <<>> /\ message.role = "assistant"
    THEN t + 1 ELSE t

\* HandleMessage, with the entry put aside and the loop going on instead of
\* being yielded.
HandleMessageBuffers ==
    /\ prog = "groupchat"
    /\ pc = "loop"
    /\ pending /= <<>>
    /\ LET message == Head(pending)
           content == Strip(message.content)
           display_name == _normalize_name(message.name)
       IN /\ pending' = Tail(pending)
          /\ agentMsgs' = IF message.role = "assistant"
                          THEN agentMsgs + 1 ELSE agentMsgs
          /\ turn' = TurnAfter(turn, message)
          /\ IF content = <<>>
             THEN UNCHANGED emitted
             ELSE IF message.role = "assistant"
             THEN emitted' = Append(emitted,
                        Entry(<<"turn", turn', display_name>>, content,
                              display_name, curRound))
             ELSE emitted' = Append(emitted,
                        Entry(<<message.role, 0, NoName>>, content, <<"assistant">>,
                              curRound))
    /\ UNCHANGED << inputs, exitCause, pc, clientBuilt, resolved, created, bAgents,
                    bIds, agents, assistant_ids, selIndex, iter, curRound,
                    invoked, releaseCount, delIdx, deleteAttempts, closed,
                    inflight, surfaced, cancelled >>
    /\ UNCHANGED << replies, transcript, inFlight, nextId, otherIds >>

\* Lines 162-180: the body of the async for, for one message.
HandleMessage ==
    /\ prog = "groupchat"
    /\ pc = "loop"
    /\ pending /= <<>>
    /\ LET message == Head(pending)
           content == Strip(message.content)
           display_name == _normalize_name(message.name)
       IN /\ pending' = Tail(pending)
          /\ agentMsgs' = IF message.role = "assistant"
                          THEN agentMsgs + 1 ELSE agentMsgs
          /\ turn' = TurnAfter(turn, message)
          /\ IF content = <<>>
             THEN UNCHANGED << pc, emitted >>
             ELSE IF message.role = "assistant"
             THEN /\ emitted' = Append(emitted,
                        Entry(<<"turn", turn', display_name>>, content,
                              display_name, curRound))
                  /\ pc' = "yield"
             ELSE /\ emitted' = Append(emitted,
                        Entry(<<message.role, 0, NoName>>, content, <<"assistant">>,
                              curRound))
                  /\ pc' = "yield"
    /\ UNCHANGED << inputs, exitCause, clientBuilt, resolved, created, bAgents, bIds,
                    agents, assistant_ids, selIndex, iter, curRound, invoked,
                    releaseCount, delIdx, deleteAttempts, closed, inflight,
                    surfaced, cancelled >>
    /\ UNCHANGED << replies, transcript, inFlight, nextId, otherIds >>

\* chat.invoke() is exhausted: the async for ends and the try block is left.
ChatExhausted ==
    /\ prog = "groupchat"
    /\ pc = "loop"
    /\ pending = <<>>
    /\ ~MoreRounds(iter, resolved)
    /\ pc' = "finally"
    /\ exitCause' = "normal"
    /\ UNCHANGED << inputs, clientBuilt, resolved, created, bAgents, bIds,
                    agents, assistant_ids, selIndex, iter, pending, curRound,
                    agentMsgs, invoked, turn, emitted, releaseCount, delIdx,
                    deleteAttempts, closed, inflight, surfaced, cancelled >>
    /\ UNCHANGED << replies, transcript, inFlight, nextId, otherIds >>

\* ------------------------------------------------------------ finally block
\* What the caller of the run observes for an exception leaving the generator.
Surface(exc) == IF exc = "GeneratorExit" THEN "none" ELSE exc

\* Lines 182-183: the keep test and the start of the delete loop.
Release ==
    /\ prog = "groupchat"
    /\ pc = "finally"
    /\ releaseCount' = releaseCount + 1
    /\ IF ~keep /\ assistant_ids /= <<>>
       THEN /\ pc' = "delete"
            /\ delIdx' = 1
       ELSE /\ pc' = "close"
            /\ UNCHANGED delIdx
    /\ UNCHANGED << inputs, exitCause, clientBuilt, resolved, created, bAgents, bIds,
                    agents, assistant_ids, selIndex, iter, pending, curRound,
                    agentMsgs, invoked, turn, emitted, deleteAttempts, closed,
                    inflight, surfaced, cancelled >>
    /\ UNCHANGED << replies, transcript, inFlight, nextId, otherIds >>

\* Line 185: the delete call returns.
DeleteAgent ==
    /\ prog = "groupchat"
    /\ pc = "delete"
    /\ deleteAttempts' = Append(deleteAttempts, assistant_ids[delIdx])
    /\ IF delIdx < Len(assistant_ids)
       THEN /\ delIdx' = delIdx + 1
            /\ UNCHANGED pc
       ELSE /\ pc' = "close"
            /\ UNCHANGED delIdx
    /\ UNCHANGED << inputs, exitCause, clientBuilt, resolved, created, bAgents, bIds,
                    agents, assistant_ids, selIndex, iter, pending, curRound,
                    agentMsgs, invoked, turn, emitted, releaseCount, closed,
                    inflight, surfaced, cancelled >>
    /\ UNCHANGED << replies, transcript, inFlight, nextId, otherIds >>

\* Line 185: the delete call raises.  The exception leaves the finally block:
\* the rest of the loop and client.close() are skipped, and it replaces the
\* exception that was propagating.
DeleteAgentFail ==
    /\ prog = "groupchat"
    /\ pc = "delete"
    /\ deleteAttempts' = Append(deleteAttempts, assistant_ids[delIdx])
    /\ inflight' = "DeleteError"
    /\ surfaced' = "DeleteError"
    /\ pc' = "done"
    /\ UNCHANGED << inputs, exitCause, clientBuilt, resolved, created, bAgents, bIds,
                    agents, assistant_ids, selIndex, iter, pending, curRound,
                    agentMsgs, invoked, turn, emitted, releaseCount, delIdx,
                    closed, cancelled >>
    /\ UNCHANGED << replies, transcript, inFlight, nextId, otherIds >>

\* Line 187: client.close(); the propagating exception, if any, goes on.
CloseClient ==
    /\ prog = "groupchat"
    /\ pc = "close"
    /\ closed' = closed + 1
    /\ surfaced' = Surface(inflight)
    /\ pc' = "done"
    /\ UNCHANGED << inputs, exitCause, clientBuilt, resolved, created, bAgents, bIds,
                    agents, assistant_ids, selIndex, iter, pending, curRound,
                    agentMsgs, invoked, turn, emitted, releaseCount, delIdx,
                    deleteAttempts, inflight, cancelled >>
    /\ UNCHANGED << replies, transcript, inFlight, nextId, otherIds >>

GroupChatNext ==
    \/ StartRun
    \/ CreateAgent
    \/ CreateAgentFail
    \/ BuildReturn
    \/ Resume
    \/ CloseStream
    \/ InvokeCall
    \/ InvokeAgent
    \/ InvokeAgentFail
    \/ HandleMessage
    \/ ChatExhausted
    \/ Release
    \/ DeleteAgent
    \/ DeleteAgentFail
    \/ CloseClient

\* ------------------------------------------------------------------ run_demo
\* The id of the assistant named by AZURE_OPENAI_ASSISTANT_ID.
ExternalId == 0

\* Lines 64-70: what the loop prints for the messages of the single turn.
RECURSIVE Printed(_)
Printed(msgs) ==
    IF msgs = <<>> THEN <<>>
    ELSE LET message == Head(msgs)
             content == Strip(message.content)
         IN IF message.role = "tool" /\ content = <<>>
            THEN Printed(Tail(msgs))
            ELSE << Entry(<<message.role, 0, NoName>>, content, <<"stdout">>, 1) >>
                 \o Printed(Tail(msgs))

\* Line 42: _build_client.
DemoStart ==
    /\ prog = "demo"
    /\ pc = "start"
    /\ IF ~cfgOk
       THEN /\ pc' = "done"
            /\ surfaced' = "ConfigError"
            /\ UNCHANGED clientBuilt
       ELSE /\ clientBuilt' = TRUE
            /\ pc' = "d_assistant"
            /\ UNCHANGED surfaced
    /\ UNCHANGED << inputs, exitCause, resolved, created, bAgents, bIds, agents,
                    assistant_ids, selIndex, iter, pending, curRound,
                    agentMsgs, invoked, turn, emitted, releaseCount, delIdx,
                    deleteAttempts, closed, inflight, cancelled >>
    /\ UNCHANGED << replies, transcript, inFlight, nextId, otherIds >>

\* Lines 46-63: the assistant is retrieved or created, the chat is seeded and
\* the prompt is printed.
DemoAssistant ==
    /\ prog = "demo"
    /\ pc = "d_assistant"
    /\ IF suppliedId
       THEN /\ agents' = << [id |-> ExternalId, name |-> NoName] >>
            /\ UNCHANGED << created, nextId >>
       ELSE LET id == NewId(nextId)
            IN /\ created' = Append(created, id)
               /\ nextId' = nextId + 1
               /\ agents' = << [id |-> id, name |-> <<ASSISTANT_NAME>>] >>
    /\ emitted' = Append(emitted, Entry(<<"user", 0, NoName>>, prompt, <<"stdout">>, 0))
    /\ pc' = "d_invoke"
    /\ UNCHANGED << inputs, exitCause, clientBuilt, resolved, bAgents, bIds,
                    assistant_ids, selIndex, iter, pending, curRound,
                    agentMsgs, invoked, turn, releaseCount, delIdx,
                    deleteAttempts, closed, inflight, surfaced, cancelled >>
    /\ UNCHANGED << replies, transcript, inFlight, otherIds >>

\* Lines 47/50: the retrieve or create call raises; nothing catches it.
DemoAssistantFail ==
    /\ prog = "demo"
    /\ pc = "d_assistant"
    /\ surfaced' = IF suppliedId THEN "RetrieveError" ELSE "CreateError"
    /\ pc' = "done"
    /\ UNCHANGED << inputs, exitCause, clientBuilt, resolved, created, bAgents, bIds,
                    agents, assistant_ids, selIndex, iter, pending, curRound,
                    agentMsgs, invoked, turn, emitted, releaseCount, delIdx,
                    deleteAttempts, closed, inflight, cancelled >>
    /\ UNCHANGED << replies, transcript, inFlight, nextId, otherIds >>

\* Lines 64-70: the single turn; the backend answers.
DemoInvoke ==
    /\ prog = "demo"
    /\ pc = "d_invoke"
    /\ invoked' = Append(invoked, agents[1].id)
    /\ \E reply \in ReplyChoices(agents[1].name) :
          /\ emitted' = emitted \o Printed(reply)
          /\ replies' = Append(replies, reply)
    /\ pc' = "d_cleanup"
    /\ UNCHANGED << inputs, exitCause, clientBuilt, resolved, created, bAgents, bIds,
                    agents, assistant_ids, selIndex, iter, pending, curRound,
                    agentMsgs, turn, releaseCount, delIdx, deleteAttempts,
                    closed, inflight, surfaced, cancelled >>
    /\ UNCHANGED << transcript, inFlight, nextId, otherIds >>

\* Line 64: the invocation raises; nothing catches it.
DemoInvokeFail ==
    /\ prog = "demo"
    /\ pc = "d_invoke"
    /\ invoked' = Append(invoked, agents[1].id)
    /\ surfaced' = "InvokeError"
    /\ pc' = "done"
    /\ UNCHANGED << inputs, exitCause, clientBuilt, resolved, created, bAgents, bIds,
                    agents, assistant_ids, selIndex, iter, pending, curRound,
                    agentMsgs, turn, emitted, releaseCount, delIdx,
                    deleteAttempts, closed, inflight, cancelled >>
    /\ UNCHANGED << replies, transcript, inFlight, nextId, otherIds >>

\* DemoMustDelete, without the test for a supplied assistant.
DemoMustDeleteIgnoresSupplied(supplied, kp) == ~kp

\* Line 72: delete only an assistant this run created, unless it is kept.
DemoMustDelete(supplied, kp) == ~supplied /\ ~kp

\* Line 72, the test.
DemoCleanup ==
    /\ prog = "demo"
    /\ pc = "d_cleanup"
    /\ releaseCount' = releaseCount + 1
    /\ pc' = IF DemoMustDelete(suppliedId, keep) THEN "d_delete" ELSE "d_close"
    /\ UNCHANGED << inputs, exitCause, clientBuilt, resolved, created, bAgents, bIds,
                    agents, assistant_ids, selIndex, iter, pending, curRound,
                    agentMsgs, invoked, turn, emitted, delIdx, deleteAttempts,
                    closed, inflight, surfaced, cancelled >>
    /\ UNCHANGED << replies, transcript, inFlight, nextId, otherIds >>

\* Line 74: the delete call returns.
DemoDelete ==
    /\ prog = "demo"
    /\ pc = "d_delete"
    /\ deleteAttempts' = Append(deleteAttempts, agents[1].id)
    /\ pc' = "d_close"
    /\ UNCHANGED << inputs, exitCause, clientBuilt, resolved, created, bAgents, bIds,
                    agents, assistant_ids, selIndex, iter, pending, curRound,
                    agentMsgs, invoked, turn, emitted, releaseCount, delIdx,
                    closed, inflight, surfaced, cancelled >>
    /\ UNCHANGED << replies, transcript, inFlight, nextId, otherIds >>

\* Line 74: the delete call raises.
DemoDeleteFail ==
    /\ prog = "demo"
    /\ pc = "d_delete"
    /\ deleteAttempts' = Append(deleteAttempts, agents[1].id)
    /\ surfaced' = "DeleteError"
    /\ pc' = "done"
    /\ UNCHANGED << inputs, exitCause, clientBuilt, resolved, created, bAgents, bIds,
                    agents, assistant_ids, selIndex, iter, pending, curRound,
                    agentMsgs, invoked, turn, emitted, releaseCount, delIdx,
                    closed, inflight, cancelled >>
    /\ UNCHANGED << replies, transcript, inFlight, nextId, otherIds >>

\* Line 76: client.close().
DemoClose ==
    /\ prog = "demo"
    /\ pc = "d_close"
    /\ closed' = closed + 1
    /\ pc' = "done"
    /\ UNCHANGED << inputs, exitCause, clientBuilt, resolved, created, bAgents, bIds,
                    agents, assistant_ids, selIndex, iter, pending, curRound,
                    agentMsgs, invoked, turn, emitted, releaseCount, delIdx,
                    deleteAttempts, inflight, surfaced, cancelled >>
    /\ UNCHANGED << replies, transcript, inFlight, nextId, otherIds >>

DemoNext ==
    \/ DemoStart
    \/ DemoAssistant
    \/ DemoAssistantFail
    \/ DemoInvoke
    \/ DemoInvokeFail
    \/ DemoCleanup
    \/ DemoDelete
    \/ DemoDeleteFail
    \/ DemoClose

\* ------------------------------------------------------------- other runs
\* Another run of either program, on the same backend, creates an assistant
\* of its own.
OtherRun ==
    /\ pc /= "done"
    /\ Cardinality(otherIds) < MaxOtherAgents
    /\ otherIds' = otherIds \cup {NewId(nextId)}
    /\ nextId' = nextId + 1
    /\ UNCHANGED << inputs, exitCause, pc, clientBuilt, resolved, created, bAgents,
                    bIds, agents, assistant_ids, selIndex, iter, pending,
                    curRound, agentMsgs, invoked, turn, emitted, releaseCount,
                    delIdx, deleteAttempts, closed, inflight, surfaced,
                    cancelled >>
    /\ UNCHANGED << replies, transcript, inFlight >>

Next == GroupChatNext \/ DemoNext \/ OtherRun

Spec == Init /\ [][Next]_vars

\* The finally block, once entered, runs to its end: the event loop drives the
\* generator's finalisation and every backend call returns or raises.
Teardown == Release \/ DeleteAgent \/ DeleteAgentFail \/ CloseClient

FairSpec == Init /\ [][Next]_vars /\ WF_vars(Teardown)

\* ================================================================== claims
Range(s) == { s[i] : i \in 1..Len(s) }

Count(s, x) == Cardinality({ i \in 1..Len(s) : s[i] = x })

\* The run got as far as the try block (agent acquisition).
AcquisitionReached == prog = "groupchat" /\ resolved /= NoneVal

RunEnded == prog = "groupchat" /\ pc = "done"

\* C1: a run of stream_group_chat that reaches agent acquisition enters the
\* teardown step exactly once, whatever the exit path (normal end, exception,
\* consumer close): never twice, and never zero times once the run has ended.
C1_ReleaseExactlyOnce ==
    AcquisitionReached =>
        /\ releaseCount <= 1
        /\ (pc \in {"delete", "close", "done"} => releaseCount = 1)
        /\ (pc \in {"build", "yield", "loop", "finally"} => releaseCount = 0)

C1_Witness ==
    /\ RunEnded
    /\ exitCause = "GeneratorExit"
    /\ releaseCount = 1

\* C2: with keep = false, when a run has ended the delete attempts are exactly
\* the agents the run created: as many attempts as created agents, one each.
C2_DeletesMatchCreated ==
    (RunEnded /\ AcquisitionReached /\ ~keep) =>
        /\ Len(deleteAttempts) = Len(created)
        /\ \A id \in Range(created) : Count(deleteAttempts, id) = 1

\* C3: with keep = false, teardown attempts the delete of every handle it was
\* given, also after one of the deletes failed.
C3_TeardownNeverAborts ==
    (RunEnded /\ releaseCount = 1 /\ ~keep) =>
        \A id \in Range(assistant_ids) : id \in Range(deleteAttempts)

\* C4: when the loop was left by an invocation error, that error is what the
\* caller of the run sees, also when a delete fails during teardown.
C4_OriginalErrorSurfaced ==
    (RunEnded /\ exitCause = "InvokeError") => surfaced = "InvokeError"

\* C5: when the creation of the k-th agent fails, with keep = false each of
\* the k-1 agents already created gets a delete attempt, and the creation
\* error is surfaced.
C5_PartialBuildReleased ==
    (RunEnded /\ exitCause = "CreateError" /\ ~keep) =>
        /\ \A id \in Range(created) : id \in Range(deleteAttempts)
        /\ surfaced = "CreateError"

\* C6: once the consumer has closed the stream, no agent is selected or
\* invoked and no entry is emitted any more, and the teardown runs and the run
\* ends without the consumer doing anything further.
C6_CancelStopsLoop ==
    /\ [][cancelled => /\ invoked' = invoked
                       /\ selIndex' = selIndex
                       /\ emitted' = emitted]_vars
    /\ (cancelled ~> (releaseCount = 1 /\ pc = "done"))

C6_Witness ==
    /\ RunEnded
    /\ cancelled
    /\ MoreRounds(iter, resolved)
    /\ releaseCount = 1
    /\ deleteAttempts = created
    /\ created /= <<>>

\* C7: a delete is only ever issued for an agent this run created, and only
\* when the keep flag is not set; the supplied assistant of run_demo is never
\* deleted.
C7_DeleteOnlyOwnedUnkept ==
    /\ deleteAttempts /= <<>> => ~keep
    /\ \A id \in Range(deleteAttempts) : id \in Range(created)
    /\ ExternalId \notin Range(deleteAttempts)

C7_Witness ==
    /\ prog = "demo"
    /\ suppliedId
    /\ ~keep
    /\ pc = "done"
    /\ closed = 1
    /\ invoked = <<ExternalId>>

\* C8: the n-th agent invoked is participants[(n-1) mod K], the participants
\* being in profile order.
C8_RoundRobin ==
    (prog = "groupchat" /\ agents /= <<>>) =>
        /\ Len(agents) = K
        /\ \A i \in 1..K : agents[i].name = AgentName(ASSISTANT_PROFILES[i])
        /\ \A n \in 1..Len(invoked) : invoked[n] = agents[((n - 1) % K) + 1].id

C8_Witness ==
    /\ prog = "groupchat"
    /\ Len(invoked) = K + 1
    /\ invoked[K + 1] = agents[1].id

\* C9 as stated: with bound M and no error or cancellation, exactly M
\* Agent-role messages have been appended when the loop stops, and never more
\* than M at any time.
C9_ExactlyMAgentMessages ==
    AcquisitionReached =>
        /\ agentMsgs <= resolved
        /\ (exitCause = "normal" => agentMsgs = resolved)

\* C9 amended: with bound M and no error or cancellation, the loop stops
\* after exactly M agent invocations (rounds), and never invokes more than M.
C9_ExactlyMRounds ==
    AcquisitionReached =>
        /\ Len(invoked) <= resolved
        /\ iter = Len(invoked)
        /\ (exitCause = "normal" => Len(invoked) = resolved)

C9_Witness ==
    /\ RunEnded
    /\ exitCause = "normal"
    /\ Len(invoked) = resolved
    /\ agentMsgs < resolved

\* C10: every entry the stream yields has non-empty content, and the entries
\* come in non-decreasing round order.
C10_EntriesNonEmptyOrdered ==
    prog = "groupchat" =>
        \A i \in 1..Len(emitted) :
            /\ emitted[i].content /= <<>>
            /\ (i > 1 => emitted[i - 1].round <= emitted[i].round)

\* The participant of round n (round-robin over the profiles).
ProfileOfRound(n) == ASSISTANT_PROFILES[((n - 1) % K) + 1]

UserEntry == Entry(<<"user", 0, NoName>>, prompt, <<"user">>, 0)

\* The M agent entries of the scenario: ("turn n: name_n", reply_n, name_n).
StubEntries(m) ==
    [ n \in 1..m |->
        Entry(<<"turn", n, <<ProfileOfRound(n)>>>>,
              <<"ack-">> \o AgentName(ProfileOfRound(n)),
              <<ProfileOfRound(n)>>, n) ]

\* A complete run against a stub backend: every invocation returned the fixed
\* reply of its agent, nothing failed, the consumer read the stream to its end.
StubRun ==
    /\ RunEnded
    /\ exitCause = "normal"
    /\ surfaced = "none"
    /\ ~keep
    /\ \A n \in 1..Len(replies) :
          replies[n] = StubReply(AgentName(ProfileOfRound(n)))

\* C11 as stated: against a stub backend the complete transcript is exactly
\* the M agent entries, and afterwards every ephemeral agent is deleted.
C11_TranscriptIsAgentEntries ==
    StubRun =>
        /\ transcript = StubEntries(resolved)
        /\ deleteAttempts = created
        /\ Len(created) = K

\* C11 amended: against a stub backend the complete transcript is the entry
\* ("user", prompt, "user") followed by exactly the M agent entries
\* ("turn n: name_n", reply_n, name_n), and afterwards every ephemeral agent is
\* deleted.
C11_TranscriptIsPromptThenAgentEntries ==
    StubRun =>
        /\ transcript = <<UserEntry>> \o StubEntries(resolved)
        /\ deleteAttempts = created
        /\ Len(created) = K

C11_Witness ==
    /\ StubRun
    /\ resolved = 2
    /\ prompt = <<"h", "i">>
    /\ Len(transcript) = 3
    /\ closed = 1

\* C12: when the invocation of round r raises, no entry of round r or later
\* was emitted, no further agent is invoked, the error is what the consumer
\* sees, and with keep = false every ephemeral agent gets a delete attempt.
C12_InvokeErrorContained ==
    (RunEnded /\ exitCause = "InvokeError") =>
        /\ \A i \in 1..Len(emitted) : emitted[i].round < Len(invoked)
        /\ transcript = emitted
        /\ Len(invoked) = Len(replies) + 1
        /\ surfaced = "InvokeError"
        /\ (~keep => \A id \in Range(created) : id \in Range(deleteAttempts))

\* The configuration the run reads is missing or not usable.
ConfigInvalid ==
    \/ ~cfgOk
    \/ prog = "groupchat" /\ (maxRoundsArg = NoneVal \/ maxRoundsArg = 0)
                          /\ envMax = EnvBad

RECURSIVE RenderMsgs(_, _, _)
RenderMsgs(msgs, round, t) ==
    IF msgs = <<>> THEN <<>>
    ELSE LET m == Head(msgs)
             c == RStrip(LStrip(m.content))
             shown == IF m.name = NoName THEN <<"assistant">>
                      ELSE IF m.name[1] = ASSISTANT_NAMESPACE THEN Tail(m.name)
                      ELSE m.name
         IN IF c = <<>> THEN RenderMsgs(Tail(msgs), round, t)
            ELSE IF m.role = "assistant"
            THEN <<Entry(<<"turn", t + 1, shown>>, c, shown, round)>>
                 \o RenderMsgs(Tail(msgs), round, t + 1)
            ELSE <<Entry(<<m.role, 0, NoName>>, c, <<"assistant">>, round)>>
                 \o RenderMsgs(Tail(msgs), round, t)

\* Assistant messages with content among msgs.
RECURSIVE TurnsIn(_)
TurnsIn(msgs) ==
    IF msgs = <<>> THEN 0
    ELSE (IF Head(msgs).role = "assistant"
             /\ RStrip(LStrip(Head(msgs).content)) /= <<>> THEN 1 ELSE 0)
         + TurnsIn(Tail(msgs))

RECURSIVE RenderRounds(_, _, _)
RenderRounds(reps, round, t) ==
    IF reps = <<>> THEN <<>>
    ELSE RenderMsgs(Head(reps), round, t)
         \o RenderRounds(Tail(reps), round + 1, t + TurnsIn(Head(reps)))

\* The transcript as a function of the prompt and the replies alone.
TranscriptOf(p, reps) ==
    <<Entry(<<"user", 0, NoName>>, p, <<"user">>, 0)>> \o RenderRounds(reps, 1, 0)

\* C14: the transcript of a complete run is determined by the prompt and the
\* replies of the backend (the participants are fixed, the bound is the number
\* of replies): two runs that agree on these yield the same entries in the
\* same order, whatever ids the backend hands out and whatever else differs.
C14_TranscriptDetermined ==
    (prog = "groupchat" /\ exitCause = "normal") =>
        /\ Len(replies) = resolved
        /\ transcript = TranscriptOf(prompt, replies)

C14_Witness ==
    /\ RunEnded
    /\ exitCause = "normal"
    /\ otherIds /= {}
    /\ Len(transcript) > resolved
    /\ resolved = DefaultMaxIterations

\* C15: at most one invocation is in flight at any time, a round is started
\* only after the invocation of the round before has returned and its
\* messages were handled, and a run creates, invokes and deletes only its own
\* agents, never those another run created on the same backend.
C15_SequentialAndIsolated ==
    /\ [](inFlight \in {0, 1})
    /\ [](inFlight = 1 <=> pc = "invoking")
    /\ [][invoked' /= invoked =>
            /\ inFlight = 0
            /\ pending = <<>>
            /\ Len(replies) = Len(invoked)
            /\ Len(invoked') = Len(invoked) + 1]_vars
    /\ [](Range(created) \cap otherIds = {})
    /\ [](Range(deleteAttempts) \cap otherIds = {})
    /\ [](prog = "groupchat" => Range(invoked) \subseteq Range(created))

C15_Witness ==
    /\ RunEnded
    /\ Len(invoked) >= 2
    /\ otherIds /= {}
    /\ \E id \in otherIds : id < created[K]
    /\ deleteAttempts = created

\* C16: the stream is lazy.  The consumer holds every entry produced so far
\* before the loop goes on to anything else (so before the next agent is
\* invoked), at most one produced entry is not yet taken, the prompt entry is
\* taken before the first invocation, and the consumer's entries are the
\* produced ones in the same order.
C16_Lazy ==
    prog = "groupchat" =>
        /\ Len(transcript) <= Len(emitted)
        /\ Len(emitted) - Len(transcript) <= 1
        /\ transcript = SubSeq(emitted, 1, Len(transcript))
        /\ (pc \in {"loop", "invoking"} => transcript = emitted)
        /\ (invoked /= <<>> => transcript /= <<>>)
        /\ (pc = "invoking" =>
               \A i \in 1..Len(transcript) : transcript[i].round < Len(invoked))

C16_Witness ==
    /\ prog = "groupchat"
    /\ pc = "invoking"
    /\ Len(invoked) = 2
    /\ Len(transcript) = 3
    /\ transcript[3].round = 1

\* The reply of round r carries nothing but empty content.
EmptyReply(r) ==
    /\ replies[r] /= <<>>
    /\ \A k \in 1..Len(replies[r]) : Strip(replies[r][k].content) = <<>>

TurnEntries == { i \in 1..Len(emitted) : emitted[i].label[1] = "turn" }

\* Round accounting goes on past a round without content: no entry for it,
\* it counts towards the bound, the selection moves on.
RoundsAdvance ==
    /\ \A r \in 1..Len(replies) :
          EmptyReply(r) => \A i \in 1..Len(emitted) : emitted[i].round /= r
    /\ iter = Len(invoked)
    /\ exitCause = "normal" => iter = resolved
    /\ \A n \in 1..Len(invoked) : invoked[n] = agents[((n - 1) % K) + 1].id

\* C17 as stated: a round whose reply is empty emits nothing, still counts
\* towards the bound and moves the selection on, and the turn index of later
\* agent entries reflects the skipped round.
C17_TurnReflectsSkippedRound ==
    (prog = "groupchat" /\ agents /= <<>>) =>
        /\ RoundsAdvance
        /\ \A i \in TurnEntries : emitted[i].label[2] = emitted[i].round

\* C17 amended: a round whose reply is empty emits nothing, still counts
\* towards the bound and moves the selection on, but the turn index does not
\* advance for it: agent entries are numbered 1, 2, 3, ... in the order they
\* are emitted.
C17_TurnCountsEmittedOnly ==
    (prog = "groupchat" /\ agents /= <<>>) =>
        /\ RoundsAdvance
        /\ turn = Cardinality(TurnEntries)
        /\ \A i \in TurnEntries :
              emitted[i].label[2] = Cardinality({ j \in TurnEntries : j <= i })

C17_Witness ==
    /\ prog = "groupchat"
    /\ exitCause = "normal"
    /\ Len(replies) >= 2
    /\ EmptyReply(1)
    /\ \E i \in TurnEntries : emitted[i].round = 2 /\ emitted[i].label[2] = 1

\* C18: in run_demo an assistant this run created is deleted on every exit
\* path when the keep flag is not set, also when the invocation raises.
C18_DemoAlwaysDeletes ==
    (prog = "demo" /\ pc = "done" /\ ~suppliedId /\ ~keep /\ created /= <<>>) =>
        deleteAttempts = created

\* C19: the bound is the max_rounds argument whenever the caller supplies
\* one, 0 included; otherwise the setting, and 4 when that is unset.
C19_BoundIsArgument ==
    AcquisitionReached =>
        resolved = IF maxRoundsArg /= NoneVal THEN maxRoundsArg
                   ELSE IF envMax = EnvUnset THEN 4
                   ELSE envMax

\* C20: once the client is built it is closed exactly once on every exit
\* path of stream_group_chat, and after the last delete attempt.
C20_ClientClosedOnce ==
    prog = "groupchat" =>
        /\ closed <= 1
        /\ (pc = "done" /\ clientBuilt => closed = 1)
        /\ (closed = 1 => pc = "done")

====
